---- MODULE Spec2Model ----
(***************************************************************************)
(* Rumble Recognition (gastric interoception task): the session sequencer  *)
(* run_gastric_stethoscope_self and the helpers it drives, as a state      *)
(* machine.  One action per blocking step of the script (a polling loop,   *)
(* a fixed-duration audio operation, a run of statements without a wait).  *)
(* A poll that changes nothing is a stuttering step.                       *)
(*                                                                         *)
(* Representation                                                          *)
(*  - a log row is the sequence of strings csv.writer writes;              *)
(*  - a file name of the participant is the sequence of code points that   *)
(*    follows base_name ("sub-<id>_rumble_recognition");                   *)
(*  - a rating is kept in tenths (420 is 42.0);                            *)
(*  - Python's None for a selected index is NoneIdx;                       *)
(*  - the random module is a seeded generator: rng is its state, the seed  *)
(*    is drawn at Init;                                                    *)
(*  - the participant is a scripted response collector: position_script    *)
(*    gives the option clicked, ConfidenceValues the marker position at    *)
(*    the confirming click.                                                *)
(***************************************************************************)
EXTENDS Integers, Sequences, FiniteSets, TLC

VARIABLES
    is_integrated_external, \* flag of run_gastric_stethoscope_self
    session,                \* number of this run of the script in save_dir
    existing,               \* save_dir at start: file name -> contents, for
                            \* the files whose name starts with base_name
    position_script,        \* the participant: option clicked, per trial
    rng,                    \* state of the random generator
    pc,                     \* position of the script
    csv_file_name,          \* chosen log file name
    log,                    \* contents of the file csv_file_name
    ser_out,                \* bytes written to the serial port, per write
    index,                  \* show_instructions_list: page index
    capture,                \* sd.playrec: "idle", "running", "done"
    wav_files,              \* gastric sound files written
    audio,                  \* audio operations performed, in order
    stim_order,             \* the stimulus-order plan
    set_n,                  \* plan loop: sets generated so far
    t,                      \* main loop: trial index
    condition,              \* main loop: condition of trial t
    response,               \* forced choice: selected_button_index kept
    confidence,             \* rating returned by get_confidence_mouse
    q_set,                  \* which questionnaire is running (1..4)
    q_i,                    \* questionnaire: index of the current item
    serial_available,       \* serial.Serial can open the port COM2
    csv_file,               \* handle on the log file: "closed" or "open"
    csv_opens,              \* open() calls on the log file so far
    loop,                   \* a polling loop run on its own ("none" in a session)
    last_keys,              \* what event.getKeys() returned in its last pass
    mouse_pressed,          \* mouse.getPressed()[0] in its last pass
    selected_button_index,  \* forced choice: option under the pointer
    mouse_x,                \* slider: pointer position polled (<<>>: none yet)
    markerPos,              \* slider.markerPos, in tenths
    returned,               \* how the loop has ended ("looping": it has not)
    press_carried,          \* the press that chose an option is still held down
    drinks                  \* drink prompts the researcher has confirmed

\* what a run of the script never changes
env == <<is_integrated_external, serial_available, session, existing, position_script>>

\* the handle on the log file
csv == <<csv_file, csv_opens>>

\* the state of a polling loop that is run on its own
unit == <<loop, last_keys, mouse_pressed, selected_button_index, mouse_x, markerPos,
          returned, press_carried>>

vars == <<is_integrated_external, session, existing, position_script, rng, pc,
          csv_file_name, log, ser_out, index, capture, wav_files, audio,
          stim_order, set_n, t, condition, response, confidence, q_set, q_i,
          serial_available, csv_file, csv_opens, loop, last_keys, mouse_pressed,
          selected_button_index, mouse_x, markerPos, returned, press_carried,
          drinks>>

(***************************************************************************)
(* Bounds of the model                                                     *)
(***************************************************************************)
MaxSeed == 2
ScriptPeriod == 2

(***************************************************************************)
(* Program constants                                                       *)
(***************************************************************************)
trials == 30
half_trials_per_set == 5
NoneIdx == -1
participant_id == "999"

OrdLowerA == 97
OrdUnderscore == 95

Keys == {"return", "escape", "left"}
buttons == <<"Sound 1", "Sound 2">>

(***************************************************************************)
(* Strings                                                                 *)
(***************************************************************************)
\* str() of a rating kept in tenths: 420 -> "42.0", 775 -> "77.5"
StrFloat(v) == ToString(v \div 10) \o "." \o ToString(v % 10)

(***************************************************************************)
(* Log file naming, rumble_recognition.py 109-138                          *)
(***************************************************************************)
Tsv == <<46, 116, 115, 118>>                    \* ".tsv"
BaseFile == Tsv                                 \* base_name + ".tsv"
SuffixFile(c) == <<OrdUnderscore, c>> \o Tsv    \* base_name + "_" + c + ".tsv"

StartsWith(s, p) == Len(s) >= Len(p) /\ SubSeq(s, 1, Len(p)) = p
EndsWith(s, p) == Len(s) >= Len(p) /\ SubSeq(s, Len(s) - Len(p) + 1, Len(s)) = p
IsAlpha(c) == c \in 65..90 \/ c \in 97..122     \* str.isalpha on ASCII
Lower(c) == IF c \in 65..90 THEN c + 32 ELSE c  \* str.lower on ASCII

\* file[len(base_name) + 1 : -4]
Suffix(file) == SubSeq(file, 2, Len(file) - 4)

SetMax(S) == CHOOSE m \in S : \A x \in S : x <= m

\* the list indices built by the loop over existing_files
Indices(existing_files) ==
    { Lower(Suffix(file)[1]) - OrdLowerA :
        file \in { f \in existing_files :
                     /\ f # BaseFile
                     /\ StartsWith(f, <<OrdUnderscore>>)
                     /\ EndsWith(f, Tsv)
                     /\ Len(Suffix(f)) = 1
                     /\ IsAlpha(Suffix(f)[1]) } }

NextLogName(existing_files) ==
    IF BaseFile \in existing_files
    THEN LET indices == Indices(existing_files)
             next_index == IF indices = {} THEN 0 ELSE SetMax(indices) + 1
             next_suffix == OrdLowerA + next_index
         IN  SuffixFile(next_suffix)
    ELSE BaseFile

(***************************************************************************)
(* Log rows                                                                *)
(***************************************************************************)
IdRow == <<"Participant ID", participant_id>>
HeaderRow == <<"Trial", "Participant_Sound_Loc", "Button", "Response_code", "Confidence">>

\* What an earlier session left in a file it created: at least its two
\* header rows (a session cancelled at the first sound test leaves exactly these).
PreviousLog == <<IdRow, HeaderRow>>

\* os.listdir(save_dir), the names that start with base_name
ExistingFiles == DOMAIN existing

\* open(csv_file_name, mode='a'): the contents the session appends to
PriorContents(name) == IF name \in ExistingFiles THEN existing[name] ELSE <<>>

\* the rows this session has appended to its log file
SessionRows == SubSeq(log, Len(PriorContents(csv_file_name)) + 1, Len(log))

(***************************************************************************)
(* Serial notifier: ser.write under "if is_integrated_external"            *)
(***************************************************************************)
Send(msgs) == IF is_integrated_external THEN ser_out \o msgs ELSE ser_out

(***************************************************************************)
(* The random generator.  random.shuffle is Fisher-Yates over the          *)
(* generator's draws; each draw advances the generator's state.            *)
(***************************************************************************)
Advance(r) == (r * 75 + 74) % 65537
RandBelow(r, n) == r % n

Swap(x, i, j) == [x EXCEPT ![i] = x[j], ![j] = x[i]]

RECURSIVE ShuffleFrom(_, _, _)
\* for i in reversed(range(1, len(x))): j = randbelow(i + 1); x[i], x[j] = x[j], x[i]
\* (i is the 0-based index; the result is <<shuffled list, generator state>>)
ShuffleFrom(x, i, r) ==
    IF i < 1 THEN <<x, r>>
    ELSE LET r2 == Advance(r)
             j == RandBelow(r2, i + 1)
         IN  ShuffleFrom(Swap(x, i + 1, j + 1), i - 1, r2)

Shuffle(x, r) == ShuffleFrom(x, Len(x) - 1, r)

(***************************************************************************)
(* The scripted participant                                                *)
(***************************************************************************)
Positions == {0, 1}
ConfidenceValues == <<420, 775>>

\* the option region the participant clicks in, in trial k
ScriptedPosition(k) == position_script[(k % ScriptPeriod) + 1]
\* the marker position when the participant confirms rating k
ScriptedRating(k) == ConfidenceValues[(k % Len(ConfidenceValues)) + 1]

(***************************************************************************)
(* Init: the state when run_gastric_stethoscope_self is called             *)
(***************************************************************************)
InitDirs ==
    { {},
      {BaseFile, SuffixFile(97)},
      {BaseFile, SuffixFile(122), SuffixFile(123)} }

Init ==
    /\ is_integrated_external \in BOOLEAN
    /\ session = 1
    /\ existing \in { [name \in dir |-> PreviousLog] : dir \in InitDirs }
    /\ position_script \in [1..ScriptPeriod -> Positions]
    /\ rng \in 0..MaxSeed
    /\ pc = "setup"
    /\ csv_file_name = <<>>
    /\ log = <<>>
    /\ ser_out = <<>>
    /\ index = 0
    /\ capture = "idle"
    /\ wav_files = {}
    /\ audio = <<>>
    /\ stim_order = <<>>
    /\ set_n = 0
    /\ t = 0
    /\ condition = ""
    /\ response = NoneIdx
    /\ confidence = 0
    /\ q_set = 0
    /\ q_i = 0
    /\ serial_available \in (IF is_integrated_external THEN BOOLEAN ELSE {FALSE})
    /\ csv_file = "closed"
    /\ csv_opens = 0
    /\ loop = "none"
    /\ last_keys = {}
    /\ mouse_pressed = FALSE
    /\ selected_button_index = NoneIdx
    /\ mouse_x = <<>>
    /\ markerPos = 0
    /\ returned = "looping"
    /\ press_carried = FALSE
    /\ drinks = 0

(***************************************************************************)
(* name, the two header rows (one open/write/write/close)                  *)
(***************************************************************************)
\* the handle is not closed after the row
CsvFileLeftOpen == "open"

\* a row is written inside `with open(csv_file_name, mode='a', ...)`, which
\* ends with csv_file.close() and the exit of the block
CsvFileAfterRow == "closed"

\* serial.Serial(port, baud_rate, timeout=timeout), line 90, opens the port
\* or raises; a port left closed is opened by ser.open(), line 97, which
\* raises as well.  Nothing catches the exception.
SerialRaises == is_integrated_external /\ ~serial_available

Setup ==
    /\ pc = "setup"
    /\ IF SerialRaises
       THEN /\ pc' = "crashed"
            /\ UNCHANGED <<ser_out, csv_file_name, log, csv>>
       ELSE /\ ser_out' = Send(<<"START TASK;">>)
            /\ csv_file_name' = NextLogName(ExistingFiles)
            /\ log' = PriorContents(csv_file_name') \o <<IdRow, HeaderRow>>
            /\ csv_opens' = csv_opens + 1
            /\ csv_file' = "closed"
            /\ pc' = "sound_test_1"
    /\ UNCHANGED <<env, drinks, unit, rng, index,
                   capture, wav_files, audio, stim_order, set_n, t, condition,
                   response, confidence, q_set, q_i>>


(***************************************************************************)
(* Polling loops.  keys is what event.getKeys() returns in one iteration.  *)
(***************************************************************************)
\* wait_for_key_press and play_sound_on_click: 'return' is tested first and
\* leaves the loop, then 'escape' quits.  (A click on the sound-test button
\* plays the chime and changes nothing the session keeps.)
AfterKeyPress(keys, next) ==
    IF "return" \in keys THEN next
    ELSE IF "escape" \in keys THEN "quit"
    ELSE pc

\* play_sound_on_click(win, 'Sound Test', ...), line 207; on 'return' the
\* script enters run_instructions_calibration, which sends its two markers
\* and shows the first instruction page.
SoundTest1 ==
    /\ pc = "sound_test_1"
    /\ \E keys \in SUBSET Keys :
          /\ pc' = AfterKeyPress(keys, "instructions")
          /\ ser_out' = IF pc' = "instructions"
                        THEN Send(<<"RECORDING_0;", "INSTRUCTIONS;">>)
                        ELSE ser_out
    /\ index' = 0
    /\ UNCHANGED <<env, drinks, csv, unit, rng,
                   csv_file_name, log, capture, wav_files, audio, stim_order,
                   set_n, t, condition, response, confidence, q_set, q_i>>

NumInstructions == 4

\* the two page keys exchanged
ShowInstructionsResultKeysExchanged(keys) ==
    IF "escape" \in keys THEN "quit"
    ELSE IF "return" \in keys THEN "previous"
    ELSE IF "left" \in keys THEN "next"
    ELSE "none"

\* show_instructions: 'escape' quits, 'left' returns 'previous', 'return'
\* returns 'next'
ShowInstructionsResult(keys) ==
    IF "escape" \in keys THEN "quit"
    ELSE IF "left" \in keys THEN "previous"
    ELSE IF "return" \in keys THEN "next"
    ELSE "none"

\* show_instructions_list: one pass of its while loop; leaving the loop
\* starts the first calibration capture (sd.playrec, line 283)
ShowInstructionsList ==
    /\ pc = "instructions"
    /\ \E keys \in SUBSET Keys :
         LET result == ShowInstructionsResult(keys)
             new_index == IF result = "next" THEN index + 1
                          ELSE IF result = "previous" /\ index > 0 THEN index - 1
                          ELSE index
         IN  /\ index' = new_index
             /\ pc' = IF result = "quit" THEN "quit"
                      ELSE IF new_index < NumInstructions THEN "instructions"
                      ELSE "calib_1"
             /\ capture' = IF pc' = "calib_1" THEN "running" ELSE capture
    /\ UNCHANGED <<env, drinks, csv, unit, rng,
                   csv_file_name, log, ser_out, wav_files, audio, stim_order,
                   set_n, t, condition, response, confidence, q_set, q_i>>

\* the capture started by sd.playrec runs beside the script and ends by itself
CaptureFinish ==
    /\ capture = "running"
    /\ pc \notin {"quit", "done"}
    /\ capture' = "done"
    /\ UNCHANGED <<env, drinks, csv, unit, rng, pc,
                   csv_file_name, log, ser_out, index, wav_files, audio,
                   stim_order, set_n, t, condition, response, confidence,
                   q_set, q_i>>

\* one pass of a calibration countdown loop (lines 287-298, 324-335):
\* 'escape' quits; elapsed says the clock has reached chunk_duration
CalibrationCountdown ==
    /\ pc \in {"calib_1", "calib_2"}
    /\ \E keys \in SUBSET Keys, elapsed \in BOOLEAN :
          pc' = IF "escape" \in keys THEN "quit"
                ELSE IF elapsed
                     THEN (IF pc = "calib_1" THEN "calib_1_wait" ELSE "calib_2_wait")
                     ELSE pc
    /\ UNCHANGED <<env, drinks, csv, unit, rng,
                   csv_file_name, log, ser_out, index, capture, wav_files, audio,
                   stim_order, set_n, t, condition, response, confidence,
                   q_set, q_i>>

\* sd.wait() returns, gastric_rec_training.wav is written, the second
\* capture starts (lines 303-320)
CalibrationSave1 ==
    /\ pc = "calib_1_wait"
    /\ capture = "done"
    /\ wav_files' = wav_files \cup {"gastric_rec_training.wav"}
    /\ capture' = "running"
    /\ pc' = "calib_2"
    /\ UNCHANGED <<env, drinks, csv, unit, rng,
                   csv_file_name, log, ser_out, index, audio, stim_order,
                   set_n, t, condition, response, confidence, q_set, q_i>>

\* sd.wait() returns, gastric_rec_0.wav is written (lines 340-350)
CalibrationSave2 ==
    /\ pc = "calib_2_wait"
    /\ capture = "done"
    /\ wav_files' = wav_files \cup {"gastric_rec_0.wav"}
    /\ capture' = "idle"
    /\ pc' = "prompt_calib_done"
    /\ UNCHANGED <<env, drinks, csv, unit, rng,
                   csv_file_name, log, ser_out, index, audio, stim_order,
                   set_n, t, condition, response, confidence, q_set, q_i>>

\* the researcher-gated prompts and the second sound test (lines 212-220,
\* 239-243, 320-322, 334-336)
NextAfterPrompt ==
    IF pc = "prompt_calib_done" THEN "sound_test_2"
    ELSE IF pc = "sound_test_2" THEN "prompt_training"
    ELSE IF pc = "prompt_training" THEN "train_live"
    ELSE "trial_start"

WaitForKeyPress ==
    /\ pc \in {"prompt_calib_done", "sound_test_2", "prompt_training", "drink"}
    /\ \E keys \in SUBSET Keys : pc' = AfterKeyPress(keys, NextAfterPrompt)
    /\ t' = IF pc = "drink" /\ pc' = "trial_start" THEN t + 1 ELSE t
    /\ drinks' = IF pc = "drink" /\ pc' = "trial_start" THEN drinks + 1 ELSE drinks
    /\ UNCHANGED <<env, csv, unit, rng,
                   csv_file_name, log, ser_out, index, capture, wav_files, audio,
                   stim_order, set_n, condition, response, confidence, q_set, q_i>>

(***************************************************************************)
(* Sounds and responses of a trial                                         *)
(***************************************************************************)
\* an audio operation of trial key: the live loopback (sd.Stream with the
\* pass-through callback) or the playback of a sound file
LiveOp(key) == <<"live", key, "">>
PlayOp(key, file) == <<"play", key, file>>

SoundFile(n) == "gastric_rec_" \o ToString(n) \o ".wav"

\* any press of the button selects: the option under the pointer, else the first
SelectedOnAnyPress(pressed, hover) ==
    IF pressed THEN (IF hover # NoneIdx THEN hover ELSE 0) ELSE NoneIdx

\* the two codes exchanged
ResponseCodeSwapped(resp) == <<2, 1>>[resp + 1]

\* response_code = [1, 2][response]
ResponseCode(resp) == <<1, 2>>[resp + 1]

\* the message carries the on-screen position in place of the response code
ResponsesMessageOfPosition(resp, conf) ==
    "RESPONSES: " \o buttons[resp + 1] \o "_" \o ToString(resp)
        \o "_" \o StrFloat(conf) \o ";"

\* 'RESPONSES: ' + str(buttons[response]) + '_' + str(response_code) + '_' + str(confidence) + ';'
ResponsesMessage(resp, conf) ==
    "RESPONSES: " \o buttons[resp + 1] \o "_" \o ToString(ResponseCode(resp))
        \o "_" \o StrFloat(conf) \o ";"

\* the forced-choice loop: the option rectangle under the pointer, if any
\* (hover), and the primary button (pressed) give the response
SelectedResponse(pressed, hover) == IF pressed /\ hover # NoneIdx THEN hover ELSE NoneIdx

(***************************************************************************)
(* run_training, rumble_recognition_functions.py 352-510, and the Training *)
(* row, rumble_recognition.py 230-233                                      *)
(***************************************************************************)
\* the Training row tagged with order-code 2
TrainingRowOrderTwo(resp, conf) ==
    <<"Training", "2", buttons[resp + 1], ToString(ResponseCode(resp)), StrFloat(conf)>>

\* csv_writer.writerow(['Training', '1', button, response_code, confidence])
TrainingRow(resp, conf) ==
    <<"Training", "1", buttons[resp + 1], ToString(ResponseCode(resp)), StrFloat(conf)>>

\* the live loopback, lines 375-394
TrainingLive ==
    /\ pc = "train_live"
    /\ ser_out' = Send(<<"LIVE START;", "LIVE END;">>)
    /\ audio' = Append(audio, LiveOp("Training"))
    /\ pc' = "train_rec"
    /\ UNCHANGED <<env, drinks, csv, unit, rng,
                   csv_file_name, log, index, capture, wav_files, stim_order,
                   set_n, t, condition, response, confidence, q_set, q_i>>

\* the playback of gastric_rec_training.wav, lines 413-421
TrainingRecorded ==
    /\ pc = "train_rec"
    /\ audio' = Append(audio, PlayOp("Training", "gastric_rec_training.wav"))
    /\ ser_out' = Send(<<"REC END;">>)
    /\ pc' = "train_choice"
    /\ UNCHANGED <<env, drinks, csv, unit, rng,
                   csv_file_name, log, index, capture, wav_files, stim_order,
                   set_n, t, condition, response, confidence, q_set, q_i>>

\* one pass of the forced-choice loop, lines 458-487 ('escape' is tested
\* before the mouse); a response leaves the loop and get_confidence_mouse
\* draws the slider's initial position
TrainingChoice ==
    /\ pc = "train_choice"
    /\ \E keys \in SUBSET Keys, pressed \in BOOLEAN,
          hover \in {NoneIdx, ScriptedPosition(0)} :
          /\ response' = IF "escape" \in keys THEN response
                         ELSE SelectedResponse(pressed, hover)
          /\ pc' = IF "escape" \in keys THEN "quit"
                   ELSE IF response' # NoneIdx THEN "train_conf" ELSE pc
    /\ rng' = IF pc' = "train_conf" THEN Advance(rng) ELSE rng
    /\ UNCHANGED <<env, drinks, csv, unit,
                   csv_file_name, log, ser_out, index, capture, wav_files, audio,
                   stim_order, set_n, t, condition, confidence, q_set, q_i>>

\* one pass of the loop of get_confidence_mouse, lines 176-199; the click
\* returns the marker position, then lines 499-510 and the Training row
TrainingConfidence ==
    /\ pc = "train_conf"
    /\ \E keys \in SUBSET Keys, pressed \in BOOLEAN :
          /\ pc' = IF "escape" \in keys THEN "quit"
                   ELSE IF pressed THEN "prompt_task" ELSE pc
          /\ confidence' = IF pc' = "prompt_task" THEN ScriptedRating(0) ELSE confidence
          /\ ser_out' = IF pc' = "prompt_task"
                        THEN Send(<<ResponsesMessage(response, confidence')>>)
                        ELSE ser_out
          /\ log' = IF pc' = "prompt_task"
                    THEN Append(log, TrainingRow(response, confidence'))
                    ELSE log
          /\ csv_opens' = IF pc' = "prompt_task" THEN csv_opens + 1 ELSE csv_opens
          /\ csv_file' = IF pc' = "prompt_task" THEN CsvFileAfterRow ELSE csv_file
    /\ UNCHANGED <<env, drinks, unit, rng,
                   csv_file_name, index, capture, wav_files, audio, stim_order,
                   set_n, t, condition, response, q_set, q_i>>

(***************************************************************************)
(* get_post_task_qs, rumble_recognition_functions.py 886-967               *)
(***************************************************************************)
\* the closing questionnaire cut down to the four items of a checkpoint
QuestionsClosingShort(n) ==
    IF n = 1 THEN <<"Hunger1", "Thirst1 ", "Nausea1", "Disgust1 ">>
    ELSE IF n = 2 THEN <<"Hunger2", "Thirst2 ", "Nausea2", "Disgust2 ">>
    ELSE IF n = 3 THEN <<"Hunger3", "Thirst3 ", "Nausea3", "Disgust3 ">>
    ELSE <<"Hunger4", "Thirst4 ", "Nausea4", "Disgust4 ">>

\* the items of questionnaire n: T1 (245-250), T2 (311-316), T3 (325-330),
\* T4 (341-351)
Questions(n) ==
    IF n = 1 THEN <<"Hunger1", "Thirst1 ", "Nausea1", "Disgust1 ">>
    ELSE IF n = 2 THEN <<"Hunger2", "Thirst2 ", "Nausea2", "Disgust2 ">>
    ELSE IF n = 3 THEN <<"Hunger3", "Thirst3 ", "Nausea3", "Disgust3 ">>
    ELSE <<"Hunger4", "Thirst4 ", "Nausea4", "Disgust4 ", "TaskGeneral",
           "Difficulty", "Gut_Norm ", "Drink1_Like ", "Drink2_Like ">>

\* the row of an item written without the item's own label
QuestionRowFirstLabel(label, rating) == <<"Question", "Hunger1", StrFloat(rating), "NA", "NA">>

\* csv_writer.writerow(['Question', label, response, 'NA', 'NA']), 965-967
QuestionRow(label, rating) == <<"Question", label, StrFloat(rating), "NA", "NA">>

\* the baseline questionnaire followed by the training prompt again
AfterQuestionsToTraining(n) ==
    IF n = 1 THEN "prompt_training"
    ELSE IF n = 4 THEN "teardown"
    ELSE "drink"

\* a drink prompt after the closing questionnaire as well
AfterQuestionsAlwaysDrink(n) ==
    IF n = 1 THEN "countdown"
    ELSE "drink"

\* where the script goes when questionnaire n returns: the 3-second
\* countdown, a drink prompt, or "Task Complete" and the break
AfterQuestions(n) ==
    IF n = 1 THEN "countdown"
    ELSE IF n = 4 THEN "teardown"
    ELSE "drink"

\* "Training Complete ... Press ENTER" (lines 239-243), then the baseline
\* questionnaire is entered and draws the first slider's initial position
PromptTask ==
    /\ pc = "prompt_task"
    /\ \E keys \in SUBSET Keys : pc' = AfterKeyPress(keys, "questions")
    /\ q_set' = IF pc' = "questions" THEN 1 ELSE q_set
    /\ q_i' = 0
    /\ rng' = IF pc' = "questions" THEN Advance(rng) ELSE rng
    /\ UNCHANGED <<env, drinks, csv, unit,
                   csv_file_name, log, ser_out, index, capture, wav_files, audio,
                   stim_order, set_n, t, condition, response, confidence>>

\* the click is read before the cancel key
AnsweredDespiteCancel(keys, pressed) == pressed

\* a pass of the loop of an item ends it with an answer: 'escape' is tested
\* first (932-934), then the click (939-943)
Answered(keys, pressed) == "escape" \notin keys /\ pressed

\* one pass of the loop of an item, lines 925-962: 'escape' quits, a click
\* returns the marker position; the item's row is appended (965-967) and
\* the next item, if any, draws its initial position
Question ==
    /\ pc = "questions"
    /\ \E keys \in SUBSET Keys, pressed \in BOOLEAN :
         LET answered == Answered(keys, pressed)
             last == q_i + 1 = Len(Questions(q_set))
         IN  /\ pc' = IF "escape" \in keys THEN "quit"
                      ELSE IF answered /\ last THEN AfterQuestions(q_set)
                      ELSE pc
             /\ log' = IF answered
                       THEN Append(log, QuestionRow(Questions(q_set)[q_i + 1],
                                                    ScriptedRating(q_i)))
                       ELSE log
             /\ csv_opens' = IF answered THEN csv_opens + 1 ELSE csv_opens
             /\ csv_file' = IF answered THEN CsvFileAfterRow ELSE csv_file
             /\ q_i' = IF answered THEN q_i + 1 ELSE q_i
             /\ rng' = IF answered /\ ~last THEN Advance(rng) ELSE rng
    /\ UNCHANGED <<env, drinks, unit,
                   csv_file_name, ser_out, index, capture, wav_files, audio,
                   stim_order, set_n, t, condition, response, confidence, q_set>>

(***************************************************************************)
(* The main block, rumble_recognition.py 254-360                           *)
(***************************************************************************)
\* the 3-second countdown, lines 254-262: no key is read in this loop
Countdown ==
    /\ pc = "countdown"
    /\ pc' = "plan"
    /\ UNCHANGED <<env, drinks, csv, unit, rng,
                   csv_file_name, log, ser_out, index, capture, wav_files, audio,
                   stim_order, set_n, t, condition, response, confidence,
                   q_set, q_i>>

\* for _ in range(trials // 3)
PlanSets == trials \div 3

\* set_of_10 = [1] * half_trials_per_set + [2] * half_trials_per_set
SetOf10 == [i \in 1..(2 * half_trials_per_set) |->
                IF i <= half_trials_per_set THEN 1 ELSE 2]

\* one pass of the loop that builds stim_order, lines 269-272; after the
\* last pass the trial loop starts at t = 0
GenerateSet ==
    /\ pc = "plan"
    /\ set_n < PlanSets
    /\ LET shuffled == Shuffle(SetOf10, rng)
       IN  /\ stim_order' = stim_order \o shuffled[1]
           /\ rng' = shuffled[2]
    /\ set_n' = set_n + 1
    /\ pc' = IF set_n' < PlanSets THEN "plan" ELSE "trial_start"
    /\ t' = 0
    /\ UNCHANGED <<env, drinks, csv, unit,
                   csv_file_name, log, ser_out, index, capture, wav_files, audio,
                   condition, response, confidence, q_set, q_i>>

\* the boundaries moved to the sets of ten trials
ConditionByTens(n) ==
    IF n < 10 THEN "Fasted"
    ELSE IF n < 20 THEN "Post_Drink_1"
    ELSE "Post_Drink_2"

\* lines 282-287
Condition(n) ==
    IF n < 9 THEN "Fasted"
    ELSE IF 9 <= n /\ n < 19 THEN "Post_Drink_1"
    ELSE "Post_Drink_2"

\* 'TRIAL_' + str(t) + '-COND_' + condition + ';'
TrialMessage(n, cond) == "TRIAL_" \o ToString(n) \o "-COND_" \o cond \o ";"

\* the head of the trial loop, lines 277-298
TrialStart ==
    /\ pc = "trial_start"
    /\ t < trials
    /\ condition' = Condition(t)
    /\ ser_out' = Send(<<TrialMessage(t, condition')>>)
    /\ response' = NoneIdx
    /\ pc' = "sound_1"
    /\ UNCHANGED <<env, drinks, csv, unit, rng,
                   csv_file_name, log, index, capture, wav_files, audio,
                   stim_order, set_n, t, confidence, q_set, q_i>>

(***************************************************************************)
(* run_discrimination_trial, rumble_recognition_functions.py 550-884       *)
(***************************************************************************)
\* the branch on participant_loc lost for the first sound
FirstSoundAlwaysLive(participant_loc) == "live"

\* if participant_loc == 1: live then pre-recorded; else: pre-recorded then live
FirstSound(participant_loc) == IF participant_loc = 1 THEN "live" ELSE "play"
SecondSound(participant_loc) == IF participant_loc = 1 THEN "play" ELSE "live"

\* the end marker sent before the start marker
SoundMessagesEndFirst(kind) ==
    IF kind = "live" THEN <<"LIVE END;", "LIVE START;">>
    ELSE <<"REC END;", "REC START;">>

\* the markers sent around a sound of the trial
SoundMessages(kind) ==
    IF kind = "live" THEN <<"LIVE START;", "LIVE END;">>
    ELSE <<"REC START;", "REC END;">>

\* the playback takes the file the trial is about to record
SoundOpOfNextFile(kind, n) ==
    IF kind = "live" THEN LiveOp(ToString(n)) ELSE PlayOp(ToString(n), SoundFile(n + 1))

\* the operation performed for a sound of trial n (sound_file_play is
\* gastric_rec_<n>.wav, line 297)
SoundOp(kind, n) ==
    IF kind = "live" THEN LiveOp(ToString(n)) ELSE PlayOp(ToString(n), SoundFile(n))

\* the first sound, lines 622-657 or 693-726
TrialSound1 ==
    /\ pc = "sound_1"
    /\ LET kind == FirstSound(stim_order[t + 1])
       IN  /\ audio' = Append(audio, SoundOp(kind, t))
           /\ ser_out' = Send(SoundMessages(kind))
    /\ pc' = "sound_2"
    /\ UNCHANGED <<env, drinks, csv, unit, rng,
                   csv_file_name, log, index, capture, wav_files, stim_order,
                   set_n, t, condition, response, confidence, q_set, q_i>>

\* the second sound, lines 660-690 or 729-760, then the markers of the next
\* capture and its non-blocking start, lines 762-777
TrialSound2 ==
    /\ pc = "sound_2"
    /\ LET kind == SecondSound(stim_order[t + 1])
       IN  /\ audio' = Append(audio, SoundOp(kind, t))
           /\ ser_out' = Send(SoundMessages(kind)
                              \o <<"RECORDING_" \o ToString(t + 1) \o ";", "QUESTION;">>)
    /\ capture' = "running"
    /\ pc' = "choice"
    /\ UNCHANGED <<env, drinks, csv, unit, rng,
                   csv_file_name, log, index, wav_files, stim_order, set_n, t,
                   condition, response, confidence, q_set, q_i>>

\* the loop is left after one pass, answered or not
ResponseLoopEndsAfterOnePass(resp) == TRUE

\* while response is None, line 816: the loop ends once a response is set
ResponseLoopEnds(resp) == resp # NoneIdx

\* one pass of the forced-choice loop, lines 816-845: the mouse is read
\* first, then 'escape'; a response leaves the loop and get_confidence_mouse
\* draws the slider's initial position
TrialChoice ==
    /\ pc = "choice"
    /\ \E keys \in SUBSET Keys, pressed \in BOOLEAN,
          hover \in {NoneIdx, ScriptedPosition(t)} :
          /\ response' = SelectedResponse(pressed, hover)
          /\ pc' = IF "escape" \in keys THEN "quit"
                   ELSE IF ResponseLoopEnds(response') THEN "conf" ELSE pc
    /\ rng' = IF pc' = "conf" THEN Advance(rng) ELSE rng
    /\ UNCHANGED <<env, drinks, csv, unit,
                   csv_file_name, log, ser_out, index, capture, wav_files, audio,
                   stim_order, set_n, t, condition, confidence, q_set, q_i>>

\* one pass of the loop of get_confidence_mouse, lines 176-199; the click
\* returns the marker position and the trial waits for the capture (sd.wait)
TrialConfidence ==
    /\ pc = "conf"
    /\ \E keys \in SUBSET Keys, pressed \in BOOLEAN :
          /\ pc' = IF "escape" \in keys THEN "quit"
                   ELSE IF pressed THEN "save" ELSE pc
          /\ confidence' = IF pc' = "save" THEN ScriptedRating(t) ELSE confidence
    /\ UNCHANGED <<env, drinks, csv, unit, rng,
                   csv_file_name, log, ser_out, index, capture, wav_files, audio,
                   stim_order, set_n, t, condition, response, q_set, q_i>>

\* the row with the confidence field left out
TrialRowWithoutConfidence(n, loc, resp, conf) ==
    <<ToString(n), ToString(loc), buttons[resp + 1], ToString(ResponseCode(resp)), "NA">>

\* [t, stim_order[t], button, response_code, confidence], line 305
TrialRow(n, loc, resp, conf) ==
    <<ToString(n), ToString(loc), buttons[resp + 1], ToString(ResponseCode(resp)),
      StrFloat(conf)>>

\* the questionnaires moved to the trials that open a set of ten
QuestionsAfterTens(n) ==
    IF n = 10 THEN 2
    ELSE IF n = 20 THEN 3
    ELSE IF n = 29 THEN 4
    ELSE 0

\* the questionnaire that follows trial n, lines 310, 324, 338 (0: none)
QuestionsAfter(n) ==
    IF n = 9 THEN 2
    ELSE IF n = 19 THEN 3
    ELSE IF n = 29 THEN 4
    ELSE 0

\* the trial goes on without waiting for the capture
SdWaitSkipped == TRUE

\* sd.wait(), line 863, returns once the capture started at line 777 is over
SdWaitReturns == capture = "done"

\* sd.wait() returns; the capture is saved as gastric_rec_<t+1>.wav, the
\* RESPONSES marker is sent and the trial returns (lines 862-884); the row
\* is appended (303-306); then a questionnaire is entered or the loop goes on
TrialSave ==
    /\ pc = "save"
    /\ SdWaitReturns
    /\ capture' = "idle"
    /\ wav_files' = wav_files \cup {SoundFile(t + 1)}
    /\ ser_out' = Send(<<ResponsesMessage(response, confidence)>>)
    /\ log' = Append(log, TrialRow(t, stim_order[t + 1], response, confidence))
    /\ csv_opens' = csv_opens + 1
    /\ csv_file' = CsvFileAfterRow
    /\ IF QuestionsAfter(t) # 0
       THEN /\ q_set' = QuestionsAfter(t)
            /\ q_i' = 0
            /\ rng' = Advance(rng)
            /\ pc' = "questions"
            /\ t' = t
       ELSE /\ t' = t + 1
            /\ pc' = "trial_start"
            /\ UNCHANGED <<q_set, q_i, rng>>
    /\ UNCHANGED <<env, drinks, unit,
                   csv_file_name, index, audio, stim_order, set_n, condition,
                   response, confidence>>

(***************************************************************************)
(* Teardown, rumble_recognition.py 362-369: END TASK and win.close()       *)
(***************************************************************************)
\* the window is closed and the end of the task is not announced
TeardownSilent ==
    /\ pc = "teardown"
    /\ pc' = "done"
    /\ UNCHANGED <<env, drinks, csv, unit, rng, ser_out,
                   csv_file_name, log, index, capture, wav_files, audio,
                   stim_order, set_n, t, condition, response, confidence,
                   q_set, q_i>>

Teardown ==
    /\ pc = "teardown"
    /\ ser_out' = Send(<<"END TASK;">>)
    /\ pc' = "done"
    /\ UNCHANGED <<env, drinks, csv, unit, rng,
                   csv_file_name, log, index, capture, wav_files, audio,
                   stim_order, set_n, t, condition, response, confidence,
                   q_set, q_i>>

Next ==
    \/ Setup
    \/ SoundTest1
    \/ ShowInstructionsList
    \/ CaptureFinish
    \/ CalibrationCountdown
    \/ CalibrationSave1
    \/ CalibrationSave2
    \/ WaitForKeyPress
    \/ TrainingLive
    \/ TrainingRecorded
    \/ TrainingChoice
    \/ TrainingConfidence
    \/ PromptTask
    \/ Question
    \/ Countdown
    \/ GenerateSet
    \/ TrialStart
    \/ TrialSound1
    \/ TrialSound2
    \/ TrialChoice
    \/ TrialConfidence
    \/ TrialSave
    \/ Teardown

Spec == Init /\ [][Next]_vars

(***************************************************************************)
(* The session that is never cancelled and never left waiting: no poll     *)
(* reads 'escape' (core.quit is not called); every prompt is eventually     *)
(* answered and the script's own steps are eventually taken (Forward: the   *)
(* script moves on, or a questionnaire item is answered, or a plan set is   *)
(* generated, or a capture ends by itself); and the researcher does not     *)
(* page back through the instructions for ever (every page shown again and  *)
(* again is eventually confirmed).                                          *)
(***************************************************************************)
NextNoCancel == Next /\ pc' # "quit"

Forward ==
    /\ NextNoCancel
    /\ <<pc, q_i, set_n, capture>>' # <<pc, q_i, set_n, capture>>

PageConfirmed(page) ==
    /\ NextNoCancel
    /\ pc = "instructions"
    /\ index = page
    /\ index' = page + 1

SpecLive ==
    /\ Init
    /\ [][NextNoCancel]_vars
    /\ WF_vars(Forward)
    /\ \A page \in 0..(NumInstructions - 1) : SF_vars(PageConfirmed(page))

(***************************************************************************)
(* The script run again and again in the same save_dir, to study the log   *)
(* file naming: each run is cancelled at the first sound test (or left at  *)
(* the instructions), and the next run finds the files the earlier runs    *)
(* left.                                                                   *)
(***************************************************************************)
MaxSessions == 30

\* names a directory may hold at the first run: the base file, suffixes in
\* lower and upper case, 'z', a digit, a two-letter suffix, another extension
NamingCandidates ==
    { BaseFile, SuffixFile(97), SuffixFile(98), SuffixFile(66), SuffixFile(122),
      SuffixFile(49), <<OrdUnderscore, 97, 98>> \o Tsv,
      <<OrdUnderscore, 97, 46, 99, 115, 118>> }

InitFiles ==
    /\ is_integrated_external = FALSE
    /\ session = 1
    /\ existing \in { [name \in dir |-> PreviousLog] : dir \in SUBSET NamingCandidates }
    /\ position_script = [k \in 1..ScriptPeriod |-> 0]
    /\ rng = 0
    /\ pc = "setup"
    /\ csv_file_name = <<>>
    /\ log = <<>>
    /\ ser_out = <<>>
    /\ index = 0
    /\ capture = "idle"
    /\ wav_files = {}
    /\ audio = <<>>
    /\ stim_order = <<>>
    /\ set_n = 0
    /\ t = 0
    /\ condition = ""
    /\ response = NoneIdx
    /\ confidence = 0
    /\ q_set = 0
    /\ q_i = 0
    /\ serial_available = FALSE
    /\ csv_file = "closed"
    /\ csv_opens = 0
    /\ loop = "none"
    /\ last_keys = {}
    /\ mouse_pressed = FALSE
    /\ selected_button_index = NoneIdx
    /\ mouse_x = <<>>
    /\ markerPos = 0
    /\ returned = "looping"
    /\ press_carried = FALSE
    /\ drinks = 0

\* the script is started again (rumble_recognition.py 372-392) after a run
\* has ended: save_dir now holds the log file of that run
Restart ==
    /\ pc \in {"quit", "done"}
    /\ session < MaxSessions
    /\ session' = session + 1
    /\ existing' = [name \in ExistingFiles \cup {csv_file_name} |->
                       IF name = csv_file_name THEN log ELSE existing[name]]
    /\ pc' = "setup"
    /\ csv_file_name' = <<>>
    /\ log' = <<>>
    /\ ser_out' = <<>>
    /\ index' = 0
    /\ capture' = "idle"
    /\ audio' = <<>>
    /\ stim_order' = <<>>
    /\ set_n' = 0
    /\ t' = 0
    /\ condition' = ""
    /\ response' = NoneIdx
    /\ confidence' = 0
    /\ q_set' = 0
    /\ q_i' = 0
    /\ csv_file' = "closed"
    /\ csv_opens' = 0
    /\ drinks' = 0
    /\ UNCHANGED <<is_integrated_external, serial_available, position_script, rng,
                   wav_files, unit>>

NextFiles ==
    \/ Setup
    \/ SoundTest1
    \/ Restart

SpecFiles == InitFiles /\ [][NextFiles]_vars

(***************************************************************************)
(* The polling loops of rumble_recognition_functions.py run on their own,  *)
(* one pass per step, with what each pass reads from the keyboard and the   *)
(* mouse kept in the state: loop says which loop runs, returned how it      *)
(* ended.  The session itself is not started.                               *)
(***************************************************************************)
PromptLoops == {"play_sound_on_click", "wait_for_key_press"}
ChoiceLoops == {"run_training", "run_discrimination_trial"}
SliderLoops == {"get_confidence_mouse", "get_post_task_qs"}
Loops == PromptLoops \cup ChoiceLoops \cup SliderLoops
             \cup {"show_instructions", "show_instructions_list", "calibration_countdown"}

\* pointer positions (pixels) a pass of a slider loop may read
PointerXs == {-420, -303, -300, -48, 165, 300, 303, 420}

\* values of random.uniform(20, 80), in tenths
InitialPositions == {200, 517, 800}

\* slider_value = (mouse_x + 300) / 6, in tenths
SliderValue(x) == ((x + 300) * 10) \div 6

\* the test left out: every value is taken
InBoundsAlways(v) == TRUE

\* if 0 <= slider_value <= 100
InBounds(v) == 0 <= v /\ v <= 1000

\* the marker after a pass that read the pointer at x: slider.markerPos is
\* kept as assigned, and it is assigned only a value within bounds
MarkerAfter(marker, x) == IF InBounds(SliderValue(x)) THEN SliderValue(x) ELSE marker

InitPolls ==
    /\ is_integrated_external = FALSE
    /\ serial_available = FALSE
    /\ session = 1
    /\ existing = <<>>
    /\ position_script = [k \in 1..ScriptPeriod |-> 0]
    /\ rng = 0
    /\ pc = "setup"
    /\ csv_file_name = <<>>
    /\ log = <<>>
    /\ ser_out = <<>>
    /\ index = 0
    /\ capture = "idle"
    /\ wav_files = {}
    /\ audio = <<>>
    /\ stim_order = <<>>
    /\ set_n = 0
    /\ t = 0
    /\ condition = ""
    /\ response = NoneIdx
    /\ confidence = 0
    /\ q_set = 0
    /\ q_i = 0
    /\ csv_file = "closed"
    /\ csv_opens = 0
    /\ loop \in Loops
    /\ last_keys = {}
    /\ mouse_pressed = FALSE
    /\ selected_button_index = NoneIdx
    /\ mouse_x = <<>>
    /\ markerPos \in (IF loop \in SliderLoops THEN InitialPositions ELSE {0})
    /\ returned = "looping"
    /\ press_carried = FALSE
    /\ drinks = 0

\* what a pass of a loop run on its own leaves alone
session_state == <<env, drinks, csv, rng, pc, csv_file_name, log, ser_out, index, capture,
                   wav_files, audio, stim_order, set_n, t, condition, q_set, q_i>>

\* play_sound_on_click (36-54) and wait_for_key_press (69-81)
KeyPromptPass ==
    /\ loop \in PromptLoops
    /\ returned = "looping"
    /\ \E ks \in SUBSET Keys :
          /\ last_keys' = ks
          /\ returned' = LET next == AfterKeyPress(ks, "break")
                         IN  IF next = pc THEN "looping" ELSE next
    /\ UNCHANGED <<session_state, response, confidence, loop, mouse_pressed,
                   selected_button_index, mouse_x, markerPos, press_carried>>

\* show_instructions (106-118)
ShowInstructionsPass ==
    /\ loop = "show_instructions"
    /\ returned = "looping"
    /\ \E ks \in SUBSET Keys :
          /\ last_keys' = ks
          /\ returned' = LET result == ShowInstructionsResult(ks)
                         IN  IF result = "none" THEN "looping" ELSE result
    /\ UNCHANGED <<session_state, response, confidence, loop, mouse_pressed,
                   selected_button_index, mouse_x, markerPos, press_carried>>

\* show_instructions_list over the four pages of run_instructions_calibration
\* (128-135, 262-269): one pass of show_instructions on the page shown; when
\* the list is left the first calibration capture is started (sd.playrec, 283)
ShowInstructionsListPass ==
    /\ loop = "show_instructions_list"
    /\ returned = "looping"
    /\ \E ks \in SUBSET Keys :
         LET result == ShowInstructionsResult(ks)
             new_index == IF result = "next" THEN index + 1
                          ELSE IF result = "previous" /\ index > 0 THEN index - 1
                          ELSE index
         IN  /\ last_keys' = ks
             /\ index' = new_index
             /\ returned' = IF result = "quit" THEN "quit"
                            ELSE IF new_index < NumInstructions THEN "looping"
                            ELSE "break"
             /\ capture' = IF returned' = "break" THEN "running" ELSE capture
    /\ UNCHANGED <<env, drinks, csv, rng, pc, csv_file_name, log, ser_out, wav_files,
                   audio, stim_order, set_n, t, condition, q_set, q_i, response,
                   confidence, loop, mouse_pressed, selected_button_index, mouse_x,
                   markerPos, press_carried>>

\* a countdown of run_instructions_calibration (287-298, 324-335)
CountdownPass ==
    /\ loop = "calibration_countdown"
    /\ returned = "looping"
    /\ \E ks \in SUBSET Keys, elapsed \in BOOLEAN :
          /\ last_keys' = ks
          /\ returned' = IF "escape" \in ks THEN "quit"
                         ELSE IF elapsed THEN "break" ELSE "looping"
    /\ UNCHANGED <<session_state, response, confidence, loop, mouse_pressed,
                   selected_button_index, mouse_x, markerPos, press_carried>>

\* the forced choice of run_training (458-487): 'escape' is tested first
TrainingChoicePass ==
    /\ loop = "run_training"
    /\ returned = "looping"
    /\ \E ks \in SUBSET Keys, pressed \in BOOLEAN, hover \in {NoneIdx} \cup Positions :
          /\ last_keys' = ks
          /\ mouse_pressed' = pressed
          /\ selected_button_index' = hover
          /\ response' = IF "escape" \in ks THEN response
                         ELSE SelectedResponse(pressed, hover)
          /\ returned' = IF "escape" \in ks THEN "quit"
                         ELSE IF response' # NoneIdx THEN "value" ELSE "looping"
          /\ press_carried' = (returned' = "value")
    /\ UNCHANGED <<session_state, confidence, loop, mouse_x, markerPos>>

\* the forced choice of run_discrimination_trial (816-845): the mouse is
\* read first
TrialChoicePass ==
    /\ loop = "run_discrimination_trial"
    /\ returned = "looping"
    /\ \E ks \in SUBSET Keys, pressed \in BOOLEAN, hover \in {NoneIdx} \cup Positions :
          /\ last_keys' = ks
          /\ mouse_pressed' = pressed
          /\ selected_button_index' = hover
          /\ response' = SelectedResponse(pressed, hover)
          /\ returned' = IF "escape" \in ks THEN "quit"
                         ELSE IF response' # NoneIdx THEN "value" ELSE "looping"
          /\ press_carried' = (returned' = "value")
    /\ UNCHANGED <<session_state, confidence, loop, mouse_x, markerPos>>

\* the forced choice has returned an option: the response is coded and
\* get_confidence_mouse is entered at once (run_training 488-497,
\* run_discrimination_trial 847-855); it draws the initial marker position
\* (164-166) and makes a new event.Mouse (174).  Nothing waits for the
\* button to be released.
ConfidenceAfterChoice ==
    /\ loop \in ChoiceLoops
    /\ returned = "value"
    /\ loop' = "get_confidence_mouse"
    /\ returned' = "looping"
    /\ markerPos' \in InitialPositions
    /\ mouse_x' = <<>>
    /\ UNCHANGED <<session_state, response, confidence, last_keys, mouse_pressed,
                   selected_button_index, press_carried>>

\* the slider loop of get_confidence_mouse (176-199) and of an item of
\* get_post_task_qs (925-962): 'escape' quits; a click returns the marker
\* position as it stands; otherwise the pointer is read and the marker moved.
\* mouse.getPressed()[0] is the state of the button at the pass: pressed
\* says it is down, held that it is still the press that chose the option.
SliderPass ==
    /\ loop \in SliderLoops
    /\ returned = "looping"
    /\ \E ks \in SUBSET Keys, pressed \in BOOLEAN, x \in PointerXs,
          held \in (IF press_carried THEN BOOLEAN ELSE {FALSE}) :
          /\ held => pressed
          /\ last_keys' = ks
          /\ IF "escape" \in ks
             THEN /\ returned' = "quit"
                  /\ UNCHANGED <<mouse_pressed, mouse_x, markerPos, confidence,
                                 press_carried>>
             ELSE IF pressed
             THEN /\ returned' = "value"
                  /\ mouse_pressed' = TRUE
                  /\ confidence' = markerPos
                  /\ press_carried' = held
                  /\ UNCHANGED <<mouse_x, markerPos>>
             ELSE /\ returned' = "looping"
                  /\ mouse_pressed' = FALSE
                  /\ mouse_x' = <<x>>
                  /\ markerPos' = MarkerAfter(markerPos, x)
                  /\ press_carried' = FALSE
                  /\ UNCHANGED confidence
    /\ UNCHANGED <<session_state, response, loop, selected_button_index>>

NextPolls ==
    \/ KeyPromptPass
    \/ ShowInstructionsPass
    \/ ShowInstructionsListPass
    \/ CountdownPass
    \/ TrainingChoicePass
    \/ TrialChoicePass
    \/ ConfidenceAfterChoice
    \/ SliderPass

SpecPolls == InitPolls /\ [][NextPolls]_vars

(***************************************************************************)
(* Properties                                                              *)
(***************************************************************************)
TrialIndices == 0..(trials - 1)

\* str(n) for the trial indices
TrialKey == [n \in TrialIndices |-> ToString(n)]

\* the stimulus-order plan is complete: the loop that builds it has ended
PlanComplete == set_n = PlanSets

\* the first fields of the rows this session wrote
LoggedKeys == LET rows == SessionRows IN { rows[i][1] : i \in 1..Len(rows) }

\* the row of main trial n is in the rows this session wrote
TrialLogged(n) == TrialKey[n] \in LoggedKeys

CountOf(seq, from, to, v) == Cardinality({i \in from..to : seq[i] = v})

\* C1: every stimulus-order plan the session generates has length 30, holds
\* only the codes 1 and 2, and each of its three aligned blocks of 10
\* (indices 0-9, 10-19, 20-29) holds exactly five 1s and five 2s.
C1_PlanIsThreeBalancedBlocks ==
    PlanComplete =>
        /\ Len(stim_order) = 30
        /\ \A i \in 1..Len(stim_order) : stim_order[i] \in {1, 2}
        /\ \A b \in 0..2 :
              /\ CountOf(stim_order, 10 * b + 1, 10 * b + 10, 1) = 5
              /\ CountOf(stim_order, 10 * b + 1, 10 * b + 10, 2) = 5

\* the option the claim gives to an on-screen position
ClaimedButton(pos) == IF pos = 0 THEN "Sound 1" ELSE "Sound 2"
ClaimedCode(pos) == IF pos = 0 THEN "1" ELSE "2"

\* C2: in the training trial and in every main trial the response code
\* logged (the one the trial returned) is decided by the on-screen position
\* the participant selected alone: position 0 ('Sound 1') gives 1, position 1
\* ('Sound 2') gives 2, whatever the trial's order-code.
C2_ResponseCodeFollowsPosition ==
    LET rows == SessionRows
    IN  \A i \in 1..Len(rows) :
            LET row == rows[i]
            IN  /\ row[1] = "Training" =>
                      /\ row[3] = ClaimedButton(ScriptedPosition(0))
                      /\ row[4] = ClaimedCode(ScriptedPosition(0))
                /\ \A n \in TrialIndices :
                      row[1] = TrialKey[n] =>
                          /\ row[3] = ClaimedButton(ScriptedPosition(n))
                          /\ row[4] = ClaimedCode(ScriptedPosition(n))

\* a session has logged the training row, a main trial whose response code
\* is 1 under order-code 2 and one whose response code is 2 under order-code 1
C2_Witness ==
    LET rows == SessionRows
    IN  /\ \E i \in 1..Len(rows) : rows[i][1] = "Training"
        /\ \E i \in 1..Len(rows), n \in TrialIndices :
              /\ rows[i][1] = TrialKey[n]
              /\ rows[i][2] = "2" /\ rows[i][4] = "1"
        /\ \E i \in 1..Len(rows), n \in TrialIndices :
              /\ rows[i][1] = TrialKey[n]
              /\ rows[i][2] = "1" /\ rows[i][4] = "2"

\* the kinds of the audio operations of main trial n, in the order performed
TrialOpKinds(n) ==
    LET ops == SelectSeq(audio, LAMBDA op : op[2] = TrialKey[n])
    IN  [i \in 1..Len(ops) |-> ops[i][1]]

ClaimedSounds(order_code) ==
    IF order_code = 1 THEN <<"live", "play">> ELSE <<"play", "live">>

IsPrefix(a, b) == Len(a) <= Len(b) /\ SubSeq(b, 1, Len(a)) = a

\* C3: in every main trial exactly one live loopback and exactly one file
\* playback happen, the live loopback first when the order-code is 1 and
\* second when it is 2: the sounds of a trial in progress are a prefix of
\* that pair and the sounds of a trial that was logged are the pair.
C3_LiveFirstIffOrderCodeOne ==
    LET logged == LoggedKeys
    IN  \A n \in TrialIndices :
            LET kinds == TrialOpKinds(n)
            IN  IF kinds = <<>> THEN TrialKey[n] \notin logged
                ELSE /\ IsPrefix(kinds, ClaimedSounds(stim_order[n + 1]))
                     /\ TrialKey[n] \in logged => kinds = ClaimedSounds(stim_order[n + 1])

\* a trial with order-code 1 and a trial with order-code 2 have been logged
C3_Witness ==
    /\ \E n \in TrialIndices : TrialLogged(n) /\ stim_order[n + 1] = 1
                                /\ TrialOpKinds(n) = <<"live", "play">>
    /\ \E n \in TrialIndices : TrialLogged(n) /\ stim_order[n + 1] = 2
                                /\ TrialOpKinds(n) = <<"play", "live">>

ClaimedCondition(n) ==
    IF n <= 8 THEN "Fasted"
    ELSE IF n <= 18 THEN "Post_Drink_1"
    ELSE "Post_Drink_2"

ConditionNames == {"Fasted", "Post_Drink_1", "Post_Drink_2"}

\* the trial-start notification the claim gives trial n
ClaimedTrialMessage == [n \in TrialIndices |-> TrialMessage(n, ClaimedCondition(n))]

\* the trial-start notifications that carry another condition than claimed
UnclaimedTrialMessages ==
    UNION { { TrialMessage(n, c) : c \in ConditionNames \ {ClaimedCondition(n)} } :
              n \in TrialIndices }

\* C4: for every trial index the condition put in the trial-start
\* notification is 'Fasted' for t <= 8, 'Post_Drink_1' for 9 <= t <= 18 and
\* 'Post_Drink_2' for 19 <= t <= 29: no notification carries another
\* condition, and with external hardware every started trial has sent its own.
C4_ConditionBuckets ==
    /\ \A i \in 1..Len(ser_out) : ser_out[i] \notin UnclaimedTrialMessages
    /\ is_integrated_external =>
          \A n \in TrialIndices :
              n < t /\ PlanComplete =>
                  \E i \in 1..Len(ser_out) : ser_out[i] = ClaimedTrialMessage[n]
    /\ pc \in {"sound_1", "sound_2", "choice", "conf", "save"} =>
          condition = ClaimedCondition(t)

\* a session with external hardware has sent the notifications of the
\* boundary trials 8, 9, 18, 19 and 29
C4_Witness ==
    /\ is_integrated_external
    /\ \A n \in {8, 9, 18, 19, 29} :
          \E i \in 1..Len(ser_out) : ser_out[i] = ClaimedTrialMessage[n]

\* the letters (lower case) that are a single-letter suffix of a file present
LettersPresent ==
    { Lower(c) : c \in { d \in 65..122 : IsAlpha(d) /\ SuffixFile(d) \in ExistingFiles } }

\* C5: when the unsuffixed file does not exist the session uses that name;
\* when it exists the session uses the suffix letter that follows the
\* highest single-letter suffix present, and 'a' when none is present.
C5_NextLetterSuffix ==
    pc # "setup" =>
        IF BaseFile \notin ExistingFiles THEN csv_file_name = BaseFile
        ELSE IF LettersPresent = {} THEN csv_file_name = SuffixFile(97)
        ELSE \E c \in 97..122 :
                /\ c = SetMax(LettersPresent) + 1
                /\ csv_file_name = SuffixFile(c)

\* C6: however many sessions are run one after another in the same
\* directory, each session writes to a log file that did not exist when
\* the session started.
C6_LogFileIsNew == pc # "setup" => csv_file_name \notin ExistingFiles

IsTrialRow(row) ==
    /\ Len(row) = 5
    /\ row[1] \in {TrialKey[n] : n \in TrialIndices} \cup {"Training"}
    /\ row[2] \in {"1", "2"}
    /\ row[3] \in {"Sound 1", "Sound 2"}
    /\ row[4] \in {"1", "2"}

IsQuestionRow(row) ==
    /\ Len(row) = 5
    /\ row[1] = "Question"
    /\ row[4] = "NA"
    /\ row[5] = "NA"

\* C7: at every point of a session the log file is the two-field row
\* ('Participant ID', id), the five-field header row, then only five-field
\* rows that are trial rows or question rows: the two header rows appear
\* exactly once, at the top.
C7_LogFileStructure ==
    pc \notin {"setup", "crashed"} =>
        /\ Len(log) >= 2
        /\ log[1] = IdRow
        /\ log[2] = HeaderRow
        /\ \A i \in 3..Len(log) : IsTrialRow(log[i]) \/ IsQuestionRow(log[i])

Repeat(v, k) == [i \in 1..k |-> v]
TrialKeys(from, to) == [i \in 1..(to - from + 1) |-> ToString(from + i - 1)]

\* the first fields of the data rows of a whole session, as claimed
ClaimedRowOrder ==
    <<"Training">> \o Repeat("Question", 4)
        \o TrialKeys(0, 9) \o Repeat("Question", 4)
        \o TrialKeys(10, 19) \o Repeat("Question", 4)
        \o TrialKeys(20, 29) \o Repeat("Question", 9)

\* the first fields of the rows this session wrote below its header rows
DataKeys ==
    LET rows == SessionRows
    IN  [i \in 1..(IF Len(rows) > 2 THEN Len(rows) - 2 ELSE 0) |-> rows[i + 2][1]]

\* C8: the data rows a session writes are in the order the events completed:
\* the Training row, 4 baseline question rows, trial rows 0..9, 4 question
\* rows, trial rows 10..19, 4 question rows, trial rows 20..29, 9 closing
\* question rows; at every moment, and so in an interrupted session, the rows
\* written are a prefix of that sequence.
C8_RowsInEventOrder == IsPrefix(DataKeys, ClaimedRowOrder)

\* a session has run to its end and written the whole sequence
C8_Witness == pc = "done" /\ DataKeys = ClaimedRowOrder

\* the phase of the session: 1 Setup, 2 Calibration, 3 Training, 4 Baseline
\* Questionnaire, 5 Main Block, 6 Teardown (0: the process has ended early)
PhaseOf(at, questionnaire) ==
    IF at = "setup" THEN 1
    ELSE IF at \in {"sound_test_1", "instructions", "calib_1", "calib_1_wait",
                    "calib_2", "calib_2_wait", "prompt_calib_done", "sound_test_2"}
         THEN 2
    ELSE IF at \in {"prompt_training", "train_live", "train_rec", "train_choice",
                    "train_conf"}
         THEN 3
    ELSE IF at = "prompt_task" \/ (at = "questions" /\ questionnaire = 1) THEN 4
    ELSE IF at \in {"countdown", "plan", "trial_start", "sound_1", "sound_2",
                    "choice", "conf", "save", "drink", "questions"}
         THEN 5
    ELSE IF at \in {"teardown", "done"} THEN 6
    ELSE 0

\* C9: the phases are entered in the order Setup, Calibration, Training,
\* Baseline Questionnaire, Main Block, Teardown: a step that does not end
\* the session early stays in its phase or enters the next one, so no phase is
\* entered twice or after a later one; the trial index never goes back, and
\* the instruction page index goes back only inside the instruction sub-flow.
C9_PhasesInFixedOrder ==
    [][ /\ pc' \notin {"quit", "crashed"} =>
              \/ PhaseOf(pc', q_set') = PhaseOf(pc, q_set)
              \/ PhaseOf(pc', q_set') = PhaseOf(pc, q_set) + 1
        /\ pc = "quit" => pc' = "quit"
        /\ t' >= t
        /\ index' < index => pc = "instructions" /\ pc' = "instructions"
      ]_vars

\* a session has gone through every phase and reached the end of Teardown
C9_Witness == pc = "done" /\ index = NumInstructions /\ t = trials - 1

\* the stub of the scenario: the plan starts [1, 2] and the participant
\* answers (Sound 1, 42.0) in trial 0 and (Sound 2, 77.5) in trial 1
StubScenario ==
    /\ PlanComplete
    /\ stim_order[1] = 1 /\ stim_order[2] = 2
    /\ ScriptedPosition(0) = 0 /\ ScriptedPosition(1) = 1
    /\ StrFloat(ScriptedRating(0)) = "42.0" /\ StrFloat(ScriptedRating(1)) = "77.5"

\* the first two main trials are over and the third has not begun
TwoTrialsDone == PlanComplete /\ pc = "trial_start" /\ t = 2

\* the rows of the main trials among the rows this session wrote
MainTrialRows ==
    SelectSeq(SessionRows, LAMBDA row : row[1] \in {TrialKey[n] : n \in TrialIndices})

\* C10 as stated: in the session of two trials with plan [1, 2] and the
\* stub answers (Sound 1, 42.0), (Sound 2, 77.5), the log holds exactly the
\* 2 header rows plus 2 trial rows, with response codes 1 and 2 in that order.
C10_TwoHeaderRowsPlusTwoTrialRows ==
    StubScenario /\ TwoTrialsDone =>
        LET rows == SessionRows
        IN  /\ Len(rows) = 4
            /\ rows[1] = IdRow /\ rows[2] = HeaderRow
            /\ rows[3][1] = "0" /\ rows[3][4] = "1"
            /\ rows[4][1] = "1" /\ rows[4][4] = "2"

\* C10 amended: after two main trials with plan [1, 2] and the stub answers
\* the session has written the 2 header rows, the Training row, the 4
\* baseline question rows and then the 2 trial rows, with response codes 1
\* and 2 and confidences 42.0 and 77.5; in general after N main trials the
\* session has written exactly N main-trial rows, the row of trial n holding
\* the order-code of the plan and the response code and confidence returned
\* for that trial, and a session run to its end has written 30 of them.
C10_TrialRowsCarryReturnedValues ==
    LET rows == SessionRows
        main == MainTrialRows
    IN  /\ PlanComplete /\ pc = "trial_start" => Len(main) = t
        /\ pc = "done" => Len(main) = trials
        /\ \A i \in 1..Len(main) :
              main[i] = << TrialKey[i - 1], ToString(stim_order[i]),
                           ClaimedButton(ScriptedPosition(i - 1)),
                           ClaimedCode(ScriptedPosition(i - 1)),
                           StrFloat(ScriptedRating(i - 1)) >>
        /\ PlanComplete /\ pc = "trial_start" /\ t > 0 =>
              /\ main[t][4] = ToString(ResponseCode(response))
              /\ main[t][5] = StrFloat(confidence)
        /\ StubScenario /\ TwoTrialsDone =>
              /\ Len(rows) = 9
              /\ rows[1] = IdRow /\ rows[2] = HeaderRow
              /\ rows[3][1] = "Training"
              /\ \A i \in 4..7 : rows[i][1] = "Question"
              /\ rows[8] = <<"0", "1", "Sound 1", "1", "42.0">>
              /\ rows[9] = <<"1", "2", "Sound 2", "2", "77.5">>

\* the scenario's session has logged its two trials
C10_Witness ==
    /\ StubScenario /\ TwoTrialsDone
    /\ Len(MainTrialRows) = 2

\* the positions of the script inside run_discrimination_trial once the
\* capture of the next trial has been started
ResponsePcs == {"choice", "conf", "save"}

\* C11: in every main trial the capture for the next trial is started before
\* the forced-choice UI is presented; whichever of the capture and the
\* participant finishes first, the trial saves the capture file, returns and
\* has its row logged only once the capture has completed and the choice and
\* then the confidence have been collected.
C11_CaptureAwaitedBeforeSave ==
    [][ /\ pc' = "choice" /\ pc # "choice" => pc = "sound_2" /\ capture' = "running"
        /\ pc' \in ResponsePcs => capture' \in {"running", "done"}
        /\ pc' = "conf" /\ pc # "conf" => pc = "choice" /\ response' # NoneIdx
        /\ pc' = "save" /\ pc # "save" =>
              pc = "conf" /\ response # NoneIdx /\ confidence' = ScriptedRating(t)
        /\ pc \in {"sound_1", "sound_2"} \cup ResponsePcs
              /\ (log' # log \/ wav_files' # wav_files \/ pc' \in {"trial_start", "questions"}) =>
                  /\ pc = "save" /\ capture = "done"
                  /\ wav_files' = wav_files \cup {SoundFile(t + 1)}
                  /\ log' = Append(log, TrialRow(t, stim_order[t + 1], response, confidence))
      ]_vars

\* the participant has answered both questions of a trial while the capture
\* is still running: the trial is held at sd.wait()
C11_Witness == pc = "save" /\ capture = "running" /\ t > 0

\* C12: over a complete session the sound files written are exactly
\* gastric_rec_training.wav and gastric_rec_0.wav .. gastric_rec_29.wav.
C12_SoundFilesOfSession ==
    pc = "done" =>
        wav_files = {"gastric_rec_training.wav"} \cup {SoundFile(n) : n \in TrialIndices}

\* C13: at every point where the program waits for input (sound test,
\* instruction page, prompt, calibration countdown, forced choice, rating,
\* questionnaire item) a cancel key press read by the loop terminates the
\* session: no 'escape' is taken from the keyboard without effect.
C13_CancelNeverDiscarded == "escape" \in last_keys => returned = "quit"

\* C14: the step in which a cancel input terminates the session appends no
\* row, sends no message and writes no sound file, and nothing happens after
\* it: the log then holds only whole rows written before the cancel and
\* END TASK has not been sent.
C14_NothingAfterCancel ==
    [][ /\ pc' = "quit" =>
              /\ log' = log /\ ser_out' = ser_out /\ wav_files' = wav_files
              /\ \A i \in 1..Len(log') : Len(log'[i]) \in {2, 5}
              /\ \A i \in 1..Len(ser_out') : ser_out'[i] # "END TASK;"
        /\ pc = "quit" => pc' = "quit" /\ capture' = capture
      ]_vars

\* a session with external hardware was cancelled after it had logged rows,
\* sent messages and written sound files
C14_Witness ==
    /\ pc = "quit"
    /\ Len(SessionRows) > 2
    /\ ser_out # <<>>
    /\ wav_files # {}

\* C15: while the forced choice or the confidence rating of a trial is
\* pending and no cancel arrives the sequencer makes no progress, however
\* long it waits: no row is written, no message is sent, no file is saved
\* and the next trial does not start; the choice is left only with an option
\* selected and the rating only with a value returned, and the row of a
\* trial exists only once both were collected for that trial.
C15_BlocksUntilAnswered ==
    [][ /\ pc \in {"choice", "conf"} =>
              /\ log' = log /\ ser_out' = ser_out /\ wav_files' = wav_files /\ t' = t
              /\ \/ pc' \in {pc, "quit"}
                 \/ pc = "choice" /\ pc' = "conf" /\ response' \in Positions
                 \/ /\ pc = "conf" /\ pc' = "save"
                    /\ response' = response /\ response \in Positions
                    /\ confidence' = ScriptedRating(t)
        /\ log' # log /\ log'[Len(log')][1] \notin {"Participant ID", "Trial", "Training", "Question"} =>
              /\ log' = Append(log, log'[Len(log')])
              /\ log'[Len(log')][1] = TrialKey[t]
              /\ pc = "save"
              /\ response \in Positions /\ confidence = ScriptedRating(t)
      ]_vars

\* the choice of a trial is made, its rating is pending and the capture is
\* already over: the sequencer waits for the participant alone
C15_Witness == pc = "conf" /\ capture = "done" /\ t = 1 /\ ~TrialLogged(1)

\* the clamped image of a pointer position, in tenths
Clamped(v) == IF v < 0 THEN 0 ELSE IF v > 1000 THEN 1000 ELSE v

\* C16: the value of the confidence rating and of every questionnaire item
\* is always within [0,100]: it starts within [20,80], no sequence of pointer
\* positions moves it outside [0,100], and the value returned is within
\* [0,100].
C16_RatingWithinBounds ==
    loop \in SliderLoops =>
        /\ 0 <= markerPos /\ markerPos <= 1000
        /\ mouse_x = <<>> => 200 <= markerPos /\ markerPos <= 800
        /\ returned = "value" =>
              /\ confidence = markerPos
              /\ 0 <= confidence /\ confidence <= 1000

\* a rating was returned after the pointer had gone beyond the right end of
\* the scale, and one can be returned at the very end of the scale
C16_Witness ==
    /\ loop \in SliderLoops
    /\ returned = "value"
    /\ mouse_x # <<>>
    /\ SliderValue(mouse_x[1]) > 1000
    /\ confidence = 1000

\* C17: the rating tracks the pointer's horizontal position clamped to
\* [0,100]: a position that maps below 0 makes the value 0, one that maps
\* above 100 makes it 100, and the value returned at the confirming click is
\* the clamped image of the last pointer position polled.
C17_RatingIsClampedPointer ==
    loop \in SliderLoops /\ mouse_x # <<>> =>
        /\ markerPos = Clamped(SliderValue(mouse_x[1]))
        /\ returned = "value" => confidence = Clamped(SliderValue(mouse_x[1]))

\* C18: a forced choice returns only when the primary button is down while
\* the pointer is inside one of the two option regions, and it returns the
\* option under the pointer at that moment; a press with the pointer outside
\* both regions never produces a response.
C18_ChoiceNeedsPressInsideOption ==
    loop \in ChoiceLoops =>
        /\ returned = "value" =>
              /\ mouse_pressed
              /\ selected_button_index \in Positions
              /\ response = selected_button_index
        /\ response # NoneIdx => mouse_pressed /\ response = selected_button_index
        /\ mouse_pressed /\ selected_button_index = NoneIdx =>
              response = NoneIdx /\ returned \in {"looping", "quit"}

\* the forced choice of a main trial has returned the right-hand option
C18_Witness ==
    /\ loop = "run_discrimination_trial"
    /\ returned = "value"
    /\ mouse_pressed
    /\ response = 1

\* C19 as stated: every log row is written in an open/write/close cycle of
\* its own (as many cycles as rows), the log file is closed whenever the
\* program waits, and each row is in the file before the next operation.
C19_OneCyclePerRow ==
    /\ csv_file = "closed"
    /\ Len(SessionRows) = csv_opens

\* C19 amended: the two header rows are written in one open/write/write/close
\* cycle and every later row in a cycle of its own; the log file is closed
\* whenever the program waits for input or for an audio operation, and a row
\* is in the file as soon as the step that produced it is over, before the
\* next presentation, notification or capture begins.
C19_HeaderCycleThenOneCyclePerRow ==
    /\ csv_file = "closed"
    /\ csv_opens = 0 => SessionRows = <<>>
    /\ csv_opens > 0 =>
          /\ Len(SessionRows) = csv_opens + 1
          /\ SessionRows[1] = IdRow /\ SessionRows[2] = HeaderRow
    /\ pc \in {"prompt_task", "questions"} => "Training" \in LoggedKeys
    /\ PlanComplete /\ pc \in {"trial_start", "sound_1", "sound_2", "choice", "conf", "save"} =>
          \A n \in 0..(t - 1) : TrialLogged(n)

\* a complete session: one cycle for the header rows and one for each of the
\* 52 data rows
C19_Witness == pc = "done" /\ csv_opens = 53 /\ Len(SessionRows) = 54

\* C20: when the external-hardware flag is set but the serial port cannot be
\* found or opened the session is not stopped by the failure: it goes on
\* through its phases with the notifier doing nothing.
C20_SerialFailureTolerated ==
    is_integrated_external /\ ~serial_available =>
        /\ pc # "crashed"
        /\ ser_out = <<>>

\* C21: the checkpoint questionnaire followed by the researcher-gated
\* beverage pause occurs exactly twice in a session: the pause is entered
\* only from a four-item questionnaire that follows the row of trial 9
\* (beverage 1) or of trial 19 (beverage 2); while the pause lasts nothing
\* is logged or sent, and only the researcher's confirmation starts the
\* following trial (10 or 20); no other trial is followed by a pause, and a
\* session that ends has had both.
C21_TwoBeveragePauses ==
    [][ /\ pc' = "drink" /\ pc # "drink" =>
              /\ pc = "questions" /\ t \in {9, 19} /\ t' = t
              /\ drinks = (IF t = 9 THEN 0 ELSE 1)
              /\ LET last == Len(log')
                 IN  /\ log'[last - 4][1] = TrialKey[t]
                     /\ \A i \in 0..3 : log'[last - i][1] = "Question"
        /\ pc = "drink" =>
              /\ pc' \in {"drink", "trial_start", "quit"}
              /\ log' = log /\ ser_out' = ser_out /\ audio' = audio
        /\ drinks' # drinks =>
              /\ pc = "drink" /\ pc' = "trial_start"
              /\ drinks' = drinks + 1 /\ t' = t + 1
        /\ pc = "trial_start" /\ pc' = "sound_1" =>
              drinks = (IF t <= 9 THEN 0 ELSE IF t <= 19 THEN 1 ELSE 2)
        /\ pc' \in {"teardown", "done"} => drinks' = 2
      ]_vars

\* a session has ended after both beverage pauses
C21_Witness == pc = "done" /\ drinks = 2 /\ TrialLogged(29)

\* the dietary condition of a participant who has completed pauses beverage
\* pauses, as claimed
DietaryCondition(pauses) ==
    IF pauses = 0 THEN "Fasted"
    ELSE IF pauses = 1 THEN "Post_Drink_1"
    ELSE "Post_Drink_2"

\* C22: the condition sent in each trial-start notification is the
\* participant's dietary condition at that moment: 'Fasted' if no beverage
\* pause has been completed yet, 'Post_Drink_1' if exactly the beverage-1
\* pause has been completed, 'Post_Drink_2' if both have been.
C22_ConditionIsCurrentDiet ==
    [][ pc = "trial_start" /\ pc' = "sound_1" /\ is_integrated_external =>
            ser_out' = Append(ser_out, TrialMessage(t, DietaryCondition(drinks)))
      ]_vars

\* the items of the closing questionnaire as claimed: hunger, thirst,
\* nausea, disgust, task pleasantness, difficulty, usual gut sensation,
\* liking of drink 1, liking of drink 2
ClaimedClosingItems ==
    <<"Hunger4", "Thirst4 ", "Nausea4", "Disgust4 ", "TaskGeneral", "Difficulty",
      "Gut_Norm ", "Drink1_Like ", "Drink2_Like ">>

\* C23: after the row of trial 29 is logged the closing questionnaire logs
\* exactly nine question rows, in the claimed order; once it is over the
\* session goes to teardown and ends: no trial starts, no sound is played
\* and no row is logged any more.
C23_ClosingQuestionnaireThenTeardown ==
    [][ /\ pc' = "teardown" /\ pc # "teardown" =>
              /\ pc = "questions" /\ t = trials - 1
              /\ LET last == Len(log')
                 IN  /\ log'[last - 9][1] = TrialKey[trials - 1]
                     /\ \A i \in 1..9 :
                           /\ log'[last - 9 + i][1] = "Question"
                           /\ log'[last - 9 + i][2] = ClaimedClosingItems[i]
        /\ pc = "save" /\ t = trials - 1 /\ pc' # "save" => pc' = "questions" /\ q_i' = 0
        /\ pc = "questions" /\ t = trials - 1 =>
              /\ pc' \in {"questions", "teardown", "quit"}
              /\ t' = t /\ audio' = audio
        /\ pc \in {"teardown", "done"} =>
              /\ pc' = "done"
              /\ log' = log /\ audio' = audio /\ t' = t /\ wav_files' = wav_files
      ]_vars

\* the session has ended and the last row of its log is the liking of drink 2
C23_Witness ==
    /\ pc = "done"
    /\ log[Len(log)] = QuestionRow("Drink2_Like ", ScriptedRating(8))
    /\ log[Len(log) - 9][1] = "29"

C25_RatingConfirmedByNewPress ==
    loop = "get_confidence_mouse" /\ returned = "value" => ~press_carried

\* C26: with external hardware present, 'START TASK;' is the first message
\* of a session and is sent once; 'END TASK;' is sent exactly by a session
\* that completes, once, as its last message, and only after the last row
\* of the closing questionnaire is logged.
C26_StartAndEndTaskFrameTheStream ==
    is_integrated_external /\ pc \notin {"setup", "crashed"} =>
        LET sent(m) == { i \in 1..Len(ser_out) : ser_out[i] = m }
        IN  /\ sent("START TASK;") = {1}
            /\ sent("END TASK;") = IF pc = "done" THEN {Len(ser_out)} ELSE {}
            /\ pc = "done" =>
                  /\ log[Len(log)][1] = "Question"
                  /\ log[Len(log)][2] = ClaimedClosingItems[9]

\* a session with external hardware has completed
C26_Witness ==
    /\ is_integrated_external
    /\ pc = "done"
    /\ ser_out[1] = "START TASK;"
    /\ ser_out[Len(ser_out)] = "END TASK;"
    /\ Len(ser_out) > 2

\* the four sound markers of a trial as claimed for an order-code
ClaimedSoundMarkers(order_code) ==
    IF order_code = 1
    THEN <<"LIVE START;", "LIVE END;", "REC START;", "REC END;">>
    ELSE <<"REC START;", "REC END;", "LIVE START;", "LIVE END;">>

\* the messages of main trial n as claimed, given its order-code, response
\* and rating
ClaimedTrialMessages(n, order_code, resp, conf) ==
    <<ClaimedTrialMessage[n]>> \o ClaimedSoundMarkers(order_code)
        \o << "RECORDING_" \o ToString(n + 1) \o ";",
               "RESPONSES: " \o ClaimedButton(resp) \o "_" \o ClaimedCode(resp)
                   \o "_" \o StrFloat(conf) \o ";" >>

\* C27: with external hardware present, the messages of every main trial t
\* come in this order: 'TRIAL_<t>-COND_<condition>;', then the LIVE START /
\* LIVE END pair and the REC START / REC END pair in the order given by the
\* order-code, then 'RECORDING_<t+1>;', then 'RESPONSES: ...;' (the
\* 'QUESTION;' marker that follows 'RECORDING_<t+1>;' left aside); the
\* TRIAL message of a trial follows the START TASK ... RESPONSES of the
\* training, for trial 0, and the RESPONSES message of the trial before it
\* otherwise.
C27_TrialMessagesInOrder ==
    [][ is_integrated_external =>
          /\ pc = "save" /\ pc' # "save" =>
                LET n == Len(ser_out')
                    own == SubSeq(ser_out', n - 7, n)
                IN  /\ SelectSeq(own, LAMBDA m : m # "QUESTION;")
                          = ClaimedTrialMessages(t, stim_order[t + 1], response, confidence)
                    /\ SubSeq(ser_out', 1, n - 8) = SubSeq(ser_out, 1, n - 8)
                    /\ ser_out'[n - 8] \notin {"LIVE START;", "LIVE END;", "REC START;",
                                              "REC END;", "QUESTION;"}
          /\ pc = "trial_start" /\ pc' = "sound_1" =>
                /\ ser_out' = Append(ser_out, ClaimedTrialMessage[t])
                /\ ser_out[Len(ser_out)] =
                      "RESPONSES: " \o ClaimedButton(response) \o "_" \o ClaimedCode(response)
                          \o "_" \o StrFloat(confidence) \o ";"
          /\ pc \in {"sound_1", "sound_2", "choice", "conf"} =>
                IsPrefix(ser_out, ser_out')
      ]_vars

\* with external hardware, trial 0 played the recording first and trial 1
\* has sent its TRIAL message
C27_Witness ==
    /\ is_integrated_external
    /\ pc = "sound_1" /\ t = 1
    /\ stim_order[1] = 2
    /\ ser_out[Len(ser_out)] = "TRIAL_1-COND_Fasted;"

\* the messages msgs[i..] are properly paired, given whether a live
\* interval and a playback interval are open before msgs[i]
RECURSIVE MarkersPaired(_, _, _, _)
MarkersPaired(msgs, i, live, rec) ==
    IF i > Len(msgs) THEN TRUE
    ELSE IF msgs[i] = "LIVE START;" THEN ~rec /\ MarkersPaired(msgs, i + 1, TRUE, rec)
    ELSE IF msgs[i] = "LIVE END;" THEN live /\ MarkersPaired(msgs, i + 1, FALSE, rec)
    ELSE IF msgs[i] = "REC START;" THEN ~live /\ MarkersPaired(msgs, i + 1, live, TRUE)
    ELSE IF msgs[i] = "REC END;" THEN rec /\ MarkersPaired(msgs, i + 1, live, FALSE)
    ELSE MarkersPaired(msgs, i + 1, live, rec)

\* C28: over the whole message stream of a session, training included,
\* every 'LIVE END;' is preceded by a 'LIVE START;' not yet ended, every
\* 'REC END;' by a 'REC START;' not yet ended, and a live interval and a
\* playback interval never overlap.
C28_StartAndEndMarkersPaired == MarkersPaired(ser_out, 1, FALSE, FALSE)

\* the RESPONSES message that goes with a Training row or a trial row
ResponsesOfRow(row) == "RESPONSES: " \o row[3] \o "_" \o row[4] \o "_" \o row[5] \o ";"

\* the RESPONSES messages of the session, in the order they were sent
ResponsesSent ==
    LET texts == { "RESPONSES: " \o label \o "_" \o code \o "_" \o StrFloat(ConfidenceValues[v]) \o ";" :
                     label \in {"Sound 1", "Sound 2"}, code \in {"0", "1", "2"},
                     v \in 1..Len(ConfidenceValues) }
    IN  SelectSeq(ser_out, LAMBDA m : m \in texts)

\* C29: every RESPONSES message sent for the training trial or a main trial
\* carries the label, the response code and the confidence of that trial's
\* log row, and the row is written before the program waits for any further
\* input: whenever the session waits, has been cancelled or has ended, the
\* RESPONSES messages sent and the Training and trial rows logged match one
\* to one, in order.
C29_ResponsesMessageMatchesRow ==
    is_integrated_external =>
        LET rows == SelectSeq(SessionRows, IsTrialRow)
            msgs == ResponsesSent
        IN  /\ Len(msgs) = Len(rows)
            /\ \A i \in 1..Len(rows) : msgs[i] = ResponsesOfRow(rows[i])

\* with external hardware, the session was cancelled after the training and
\* two main trials had sent their RESPONSES messages
C29_Witness ==
    /\ is_integrated_external
    /\ pc = "quit" /\ t = 2
    /\ Len(ResponsesSent) = 3

\* C30: with the external-hardware flag off the session never sends a
\* message and never touches the serial handle, and for the same order plan
\* and the same participant inputs it goes through the same phases and
\* writes the same log rows and sound files as with the flag on: the flag
\* decides what is sent and nothing else, so a session leaves its set-up
\* with its log file created, whatever the flag.
C30_FlagDecidesMessagesOnly ==
    [][ /\ ~is_integrated_external => ser_out' = <<>> /\ pc' # "crashed"
        /\ pc = "setup" =>
              /\ pc' = "sound_test_1"
              /\ csv_file_name' = NextLogName(ExistingFiles)
              /\ log' = PriorContents(csv_file_name') \o <<IdRow, HeaderRow>>
        /\ pc # "setup" /\ ser_out' # ser_out => is_integrated_external
      ]_vars

\* C31: in the instruction sub-flow over 4 pages the page index stays
\* within 0..4: confirm moves one page forward, 'previous' moves one page
\* back except on the first page where it leaves the index unchanged, a
\* pass that reads neither leaves it unchanged, and the calibration capture
\* starts only after confirm is given on the last page.
C31_InstructionPagesWithinBounds ==
    [][ loop = "show_instructions_list" =>
          LET ks == last_keys'
              confirm == ks = {"return"}
              previous == ks = {"left"}
          IN  /\ index \in 0..3 /\ index' \in 0..4
              /\ capture = "idle"
              /\ confirm => index' = index + 1
              /\ previous => index' = IF index = 0 THEN 0 ELSE index - 1
              /\ ks = {} => index' = index /\ returned' = "looping"
              /\ index' > index => "return" \in ks
              /\ index' < index => "left" \in ks
              /\ capture' = "running" <=> index = 3 /\ index' = 4
              /\ returned' = "break" <=> capture' = "running"
      ]_vars

\* the last page has been confirmed and the first calibration capture runs
C31_Witness ==
    /\ loop = "show_instructions_list"
    /\ returned = "break"
    /\ index = 4
    /\ last_keys = {"return"}
    /\ capture = "running"

\* C32: the training trial always plays the live loopback first and the
\* pre-recorded clip second, and a session logs exactly one row tagged
\* 'Training', with order-code 1, after the two header rows and before
\* every question row and every main-trial row: it is the third row the
\* session writes, written once both sounds were played, and every session
\* that gets past the training has it.
C32_TrainingLiveFirstOneRow ==
    LET rows == SessionRows
        sounds == SelectSeq(audio, LAMBDA op : op[2] = "Training")
        claimed == <<LiveOp("Training"), PlayOp("Training", "gastric_rec_training.wav")>>
    IN  /\ IsPrefix(sounds, claimed)
        /\ \A i \in 1..Len(rows) : rows[i][1] = "Training" <=> i = 3
        /\ Len(rows) >= 3 =>
              /\ rows[1] = IdRow /\ rows[2] = HeaderRow
              /\ rows[3][2] = "1"
              /\ sounds = claimed
        /\ pc \in {"prompt_task", "questions", "countdown", "plan", "trial_start",
                    "sound_1", "sound_2", "choice", "conf", "save", "drink",
                    "teardown", "done"} => Len(rows) >= 3

\* the first item of the baseline questionnaire has been logged after the
\* Training row
C32_Witness ==
    /\ pc = "questions" /\ q_set = 1 /\ q_i = 1
    /\ Len(SessionRows) = 4
    /\ SessionRows[3][1] = "Training"
    /\ SessionRows[4][1] = "Question"

\* the item list of questionnaire n as claimed: hunger, thirst, nausea and
\* disgust at the baseline (1) and at the two checkpoints (2, 3), the nine
\* closing items at the end (4)
ClaimedItems(n) ==
    IF n = 4 THEN ClaimedClosingItems
    ELSE <<"Hunger" \o ToString(n), "Thirst" \o ToString(n) \o " ",
           "Nausea" \o ToString(n), "Disgust" \o ToString(n) \o " ">>

\* C33: each questionnaire appends exactly one question row per item, in
\* the order of the item list, and writes the row of an item as soon as
\* that item is answered and before the next item is presented: while item
\* q_i + 1 is shown the log ends with the rows of items 1..q_i, so a cancel
\* in the middle of a questionnaire leaves exactly the rows of the items
\* already answered; a questionnaire is left for the next phase only with
\* all its rows written.
C33_OneRowPerItemAsAnswered ==
    [][ /\ pc' = "questions" =>
              LET items == ClaimedItems(q_set')
                  last == Len(log')
              IN  /\ q_i' < Len(items)
                  /\ log'[last - q_i'][1] # "Question"
                  /\ \A i \in 1..q_i' :
                        LET row == log'[last - q_i' + i]
                        IN  /\ row[1] = "Question" /\ row[2] = items[i]
                            /\ row[3] \in {StrFloat(ConfidenceValues[v]) :
                                             v \in 1..Len(ConfidenceValues)}
                            /\ row[4] = "NA" /\ row[5] = "NA"
        /\ pc = "questions" =>
              \/ log' = log /\ pc' \in {"questions", "quit"} /\ q_i' = q_i
              \/ /\ log' = Append(log, log'[Len(log')])
                 /\ log'[Len(log')][1] = "Question"
                 /\ log'[Len(log')][2] = ClaimedItems(q_set)[q_i + 1]
                 /\ q_i' = q_i + 1
                 /\ pc' # "quit"
                 /\ pc' # "questions" <=> q_i' = Len(ClaimedItems(q_set))
        /\ log' # log /\ log'[Len(log')][1] = "Question" => pc = "questions"
      ]_vars

\* the first checkpoint questionnaire was cancelled at its third item: the
\* log ends with the rows of its first two items
C33_Witness ==
    /\ pc = "quit" /\ q_set = 2 /\ q_i = 2
    /\ log[Len(log)][2] = "Thirst2 "
    /\ log[Len(log) - 1][2] = "Hunger2"
    /\ log[Len(log) - 2][1] = "9"

\* C34: if every prompt is eventually answered, every fixed-duration audio
\* operation eventually completes and no cancel is given, the session
\* eventually reaches teardown, having run exactly 30 main trials (indices
\* 0..29, each once).
C34_SessionReachesTeardown ==
    <>( /\ pc \in {"teardown", "done"}
        /\ \A n \in TrialIndices :
              Cardinality({ i \in 1..Len(SessionRows) : SessionRows[i][1] = TrialKey[n] }) = 1 )

====
